---- MODULE Spec2Model ----
(***************************************************************************)
(* Capture agents of capture.py: the shared StudentCaptureAgent (frontier  *)
(* and distance adapter) and the AttackerAgent and GuardAgent feature      *)
(* extractors.                                                             *)
(*                                                                         *)
(* Floats are carried as integers counted in hundredths: 1.0 is 100,       *)
(* 3.01 is 301, MAX_DIST = 9999.0 is 999900.  A Position is the pair       *)
(* <<row, col>>; Python's None is the empty tuple.                         *)
(***************************************************************************)
EXTENDS Integers, Sequences, FiniteSets, TLC

VARIABLES
    board,              \* initial_state.board, with the agent's initial position
    role,               \* which subclass this agent instance is
    state,              \* the GameState snapshot of the current turn
    query,              \* arguments of the next distance-adapter query
    started,            \* game_start has run
    _distances,         \* self._distances
    _initial_position,  \* self._initial_position
    _frontier,          \* self._frontier
    weights,            \* self.weights
    op,                 \* the operation that ran last
    action,             \* the candidate action of the last compute_features
    features,           \* the FeatureDict the last compute_features returned
    result              \* the value the last adapter query returned

vars == <<board, role, state, query, started, _distances, _initial_position,
          _frontier, weights, op, action, features, result>>

agent == <<started, _distances, _initial_position, _frontier, weights>>

----------------------------------------------------------------------------
(* Bounds of the model *)

MaxWidth == 3
MaxHeight == 2
MaxHist == 3
MaxFood == 2

----------------------------------------------------------------------------
(* Values *)

None == <<>>

MAX_DIST == 999900

Float(b) == IF b THEN 100 ELSE 0

Position(row, col) == <<row, col>>

STOP == "STOP"

Actions == {STOP, "NORTH", "EAST", "SOUTH", "WEST"}

NoAction == "NONE"

Roles == {"attacker", "guard"}

Opponents == {1, 3}

\* Step lengths the distance table may report: 1.0, 3.01 and 12.5 per move.
StepLengths == {100, 301, 1250}

\* Defaults handed to the adapter queries.
Defaults == {0, 700, MAX_DIST}

Min2(a, b) == IF b < a THEN b ELSE a

----------------------------------------------------------------------------
(* Board *)

Cells(w, h) == {Position(r, c) : r \in 0..(h - 1), c \in 0..(w - 1)}

\* b is a board of the bounds: any wall layout, the agent's initial position
\* an open cell or not on the board at all.
IsBoard(b) ==
    \E w \in 2..MaxWidth, h \in 1..MaxHeight :
        \E ws \in SUBSET Cells(w, h) :
            \E i \in ({None} \cup Cells(w, h)) \ ws :
                b = [width |-> w, height |-> h, walls |-> ws, initial |-> i]

is_wall(b, position) == position \in b.walls

OpenCells(b) == Cells(b.width, b.height) \ b.walls

Column(b, c) == {Position(r, c) : r \in 0..(b.height - 1)}

get_agent_initial_position(b) == b.initial

----------------------------------------------------------------------------
(* Distance table (DistancePreComputer): shortest paths over the open      *)
(* cells, four-connected, reported as step length times number of moves.   *)

EmptyTable == [open |-> {}, step |-> 0]

compute(b, step) == [open |-> OpenCells(b), step |-> step]

Adjacent(p, q) ==
    \/ p[1] = q[1] /\ (p[2] = q[2] + 1 \/ q[2] = p[2] + 1)
    \/ p[2] = q[2] /\ (p[1] = q[1] + 1 \/ q[1] = p[1] + 1)

RECURSIVE Walk(_, _, _, _, _)
Walk(open, seen, edge, target, k) ==
    IF target \in edge THEN k
    ELSE LET next == {q \in open \ seen : \E p \in edge : Adjacent(p, q)}
         IN  IF next = {} THEN -1
             ELSE Walk(open, seen \cup next, next, target, k + 1)

Moves(table, a, b) ==
    IF a \in table.open /\ b \in table.open
    THEN Walk(table.open, {a}, {a}, b, 0)
    ELSE -1

get_distance_default(table, a, b, default) ==
    IF Moves(table, a, b) < 0 THEN default
    ELSE table.step * Moves(table, a, b)

----------------------------------------------------------------------------
(* StudentCaptureAgent *)

RECURSIVE FrontierRows(_, _, _, _)
FrontierRows(b, frontier_col, row, frontier) ==
    IF row >= b.height THEN frontier
    ELSE FrontierRows(b, frontier_col, row + 1,
            IF is_wall(b, Position(row, frontier_col)) THEN frontier
            ELSE Append(frontier, Position(row, frontier_col)))

\* Variant: the home side decided with the floored midline, width // 2.
FrontierColHalfFloor(b, initial_position) ==
    IF initial_position # None /\ initial_position[2] >= b.width \div 2
    THEN b.width \div 2
    ELSE (b.width \div 2) - 1

FrontierCol(b, initial_position) ==
    IF initial_position # None /\ 2 * initial_position[2] >= b.width
    THEN b.width \div 2
    ELSE (b.width \div 2) - 1

\* Variant: no fallback to the initial position on a walled column.
BuildFrontierNoFallback(b, initial_position) ==
    FrontierRows(b, FrontierCol(b, initial_position), 0, <<>>)

_build_frontier(b, initial_position) ==
    LET frontier == FrontierRows(b, FrontierCol(b, initial_position), 0, <<>>)
    IN  IF frontier = <<>> /\ initial_position # None
        THEN Append(frontier, initial_position)
        ELSE frontier

----------------------------------------------------------------------------
(* Distance query adapter.  A query returns [v |-> value, n |-> number of  *)
(* lookups made in the distance table].                                    *)

\* Variant: the raw table entry, the default not applied to unknown paths.
DistanceNoDefault(table, start, end, default) ==
    IF start = None \/ end = None THEN [v |-> default, n |-> 0]
    ELSE [v |-> table.step * Moves(table, start, end), n |-> 1]

_distance(table, start, end, default) ==
    IF start = None \/ end = None THEN [v |-> default, n |-> 0]
    ELSE [v |-> get_distance_default(table, start, end, default), n |-> 1]

RECURSIVE ClosestLoop(_, _, _, _, _)
ClosestLoop(table, start, targets, default, best) ==
    IF targets = <<>> THEN best
    ELSE LET d == _distance(table, start, Head(targets), default)
         IN  ClosestLoop(table, start, Tail(targets), default,
                         [v |-> Min2(best.v, d.v), n |-> best.n + d.n])

\* Variant: the running minimum seeded with MAX_DIST instead of default.
ClosestDistanceSeededMax(table, start, targets, default) ==
    IF start = None THEN [v |-> default, n |-> 0]
    ELSE ClosestLoop(table, start, targets, default, [v |-> MAX_DIST, n |-> 0])

_closest_distance(table, start, targets, default) ==
    IF start = None THEN [v |-> default, n |-> 0]
    ELSE ClosestLoop(table, start, targets, default, [v |-> default, n |-> 0])

RECURSIVE FrontierLoop(_, _, _, _)
FrontierLoop(table, position, entries, best) ==
    IF entries = <<>> THEN best
    ELSE LET d == _distance(table, position, Head(entries), MAX_DIST)
         IN  FrontierLoop(table, position, Tail(entries),
                          [v |-> Min2(best.v, d.v), n |-> best.n + d.n])

_distance_to_frontier(table, frontier, position) ==
    IF position = None \/ Len(frontier) = 0 THEN [v |-> 0, n |-> 0]
    ELSE FrontierLoop(table, position, Tail(frontier),
                      _distance(table, position, Head(frontier), MAX_DIST))

----------------------------------------------------------------------------
(* GameState views of this agent *)

get_reverse_action(a) ==
    CASE a = "NORTH" -> "SOUTH"
      [] a = "SOUTH" -> "NORTH"
      [] a = "EAST" -> "WEST"
      [] a = "WEST" -> "EAST"
      [] OTHER -> NoAction

RECURSIVE SetToSeq(_)
SetToSeq(S) ==
    IF S = {} THEN <<>>
    ELSE LET x == CHOOSE y \in S : TRUE IN <<x>> \o SetToSeq(S \ {x})

\* dict.values(): the positions of a mapping, one entry per key.
RECURSIVE values(_)
values(m) ==
    IF DOMAIN m = {} THEN <<>>
    ELSE LET o == CHOOSE x \in DOMAIN m : \A y \in DOMAIN m : x <= y
         IN  <<m[o]>> \o values([x \in DOMAIN m \ {o} |-> m[x]])

----------------------------------------------------------------------------
(* Feature extractors *)

\* Variant: compares with the most recent action, agent_actions[-1].
ReverseOfLast(agent_actions, a) ==
    IF Len(agent_actions) > 1
    THEN Float(a = get_reverse_action(agent_actions[Len(agent_actions)]))
    ELSE 0

\* features['reverse']: agent_actions[-2] is the entry before the last one.
ReverseFeature(agent_actions, a) ==
    IF Len(agent_actions) > 1
    THEN Float(a = get_reverse_action(agent_actions[Len(agent_actions) - 1]))
    ELSE 0

\* Variant: no cap at 20.0.
FoodUncapped(food_distance) == food_distance

\* float(min(food_distance, 20.0))
FoodFeature(food_distance) == Min2(food_distance, 2000)

\* Variant: strict comparison on the capped distance.
GhostNearOnCapped(ghost_distance) == Float(Min2(ghost_distance, 1200) < 300)

\* float(ghost_distance <= 3.0)
GhostNear(ghost_distance) == Float(ghost_distance <= 300)

AttackerFeatures(table, gs, a) ==
    LET early ==
            ("bias" :> 100) @@ ("score" :> gs.score)
            @@ ("stopped" :> Float(a = STOP))
            @@ ("on_home_side" :> Float(gs.is_ghost))
            @@ ("reverse" :> ReverseFeature(gs.actions, a))
        position == gs.position
        food == gs.food
        food_distance ==
            _closest_distance(table, position, SetToSeq(food), MAX_DIST).v
        ghosts == gs.ghosts
        ghost_distance ==
            _closest_distance(table, position, values(ghosts), MAX_DIST).v
    IN  IF position = None THEN early
        ELSE early
             @@ ("distance_to_food" :>
                    IF Cardinality(food) > 0 THEN FoodFeature(food_distance) ELSE 0)
             @@ ("distance_to_ghost" :> Min2(ghost_distance, 1200))
             @@ ("ghost_near" :> GhostNear(ghost_distance))

\* Variant: no early return on an undefined position.
GuardFeaturesNoEarlyReturn(table, frontier, gs, a) ==
    LET position == gs.position
        invaders == gs.invaders
        distance ==
            _closest_distance(table, position, values(invaders), MAX_DIST).v
    IN  ("bias" :> 100)
        @@ ("stopped" :> Float(a = STOP))
        @@ ("on_home_side" :> Float(gs.is_ghost))
        @@ ("reverse" :> ReverseFeature(gs.actions, a))
        @@ ("num_invaders" :> 100 * Cardinality(DOMAIN invaders))
        @@ ("distance_to_invader" :>
                IF Cardinality(DOMAIN invaders) > 0 THEN distance ELSE 0)
        @@ ("frontier_distance" :>
                IF Cardinality(DOMAIN invaders) > 0 THEN 0
                ELSE _distance_to_frontier(table, frontier, position).v)

\* Variant: frontier_distance measured even when invaders are visible.
GuardFeaturesKeepsPatrol(table, frontier, gs, a) ==
    LET early ==
            ("bias" :> 100)
            @@ ("stopped" :> Float(a = STOP))
            @@ ("on_home_side" :> Float(gs.is_ghost))
            @@ ("reverse" :> ReverseFeature(gs.actions, a))
        position == gs.position
        invaders == gs.invaders
        distance ==
            _closest_distance(table, position, values(invaders), MAX_DIST).v
    IN  IF position = None THEN early
        ELSE early
             @@ ("num_invaders" :> 100 * Cardinality(DOMAIN invaders))
             @@ ("distance_to_invader" :>
                    IF Cardinality(DOMAIN invaders) > 0 THEN distance ELSE 0)
             @@ ("frontier_distance" :>
                    _distance_to_frontier(table, frontier, position).v)

GuardFeatures(table, frontier, gs, a) ==
    LET early ==
            ("bias" :> 100)
            @@ ("stopped" :> Float(a = STOP))
            @@ ("on_home_side" :> Float(gs.is_ghost))
            @@ ("reverse" :> ReverseFeature(gs.actions, a))
        position == gs.position
        invaders == gs.invaders
        distance ==
            _closest_distance(table, position, values(invaders), MAX_DIST).v
    IN  IF position = None THEN early
        ELSE early
             @@ ("num_invaders" :> 100 * Cardinality(DOMAIN invaders))
             @@ ("distance_to_invader" :>
                    IF Cardinality(DOMAIN invaders) > 0 THEN distance ELSE 0)
             @@ ("frontier_distance" :>
                    IF Cardinality(DOMAIN invaders) > 0 THEN 0
                    ELSE _distance_to_frontier(table, frontier, position).v)

AttackerWeights ==
    [k \in {"bias", "score", "distance_to_food", "distance_to_ghost",
            "ghost_near", "stopped", "reverse", "on_home_side"} |->
        CASE k = "bias" -> 100
          [] k = "score" -> 15000
          [] k = "distance_to_food" -> -250
          [] k = "distance_to_ghost" -> 180
          [] k = "ghost_near" -> -20000
          [] k = "stopped" -> -8000
          [] k = "reverse" -> -400
          [] k = "on_home_side" -> -1000]

GuardWeights ==
    [k \in {"bias", "on_home_side", "stopped", "reverse", "num_invaders",
            "distance_to_invader", "frontier_distance"} |->
        CASE k = "bias" -> 100
          [] k = "on_home_side" -> 6000
          [] k = "stopped" -> -6000
          [] k = "reverse" -> -300
          [] k = "num_invaders" -> -120000
          [] k = "distance_to_invader" -> -2500
          [] k = "frontier_distance" -> -250]

NoFeatures == [k \in {} |-> 0]

NoResult == [v |-> 0, n |-> 0]

BaseState ==
    [score |-> 0, is_ghost |-> FALSE, actions |-> <<>>, position |-> None,
     food |-> {}, ghosts |-> [o \in {} |-> None], invaders |-> [o \in {} |-> None]]

NoQuery == [start |-> None, end |-> None, targets |-> <<>>, default |-> 0]

\* __init__: a fresh table, no frontier, no initial position, the role's weights.
Constructed ==
    /\ started = FALSE
    /\ _distances = EmptyTable
    /\ _frontier = <<>>
    /\ _initial_position = None
    /\ weights = (IF role = "attacker" THEN AttackerWeights ELSE GuardWeights)
    /\ op = "init"
    /\ action = NoAction
    /\ features = NoFeatures
    /\ result = NoResult

game_start ==
    /\ ~started
    /\ \E step \in StepLengths : _distances' = compute(board, step)
    /\ _initial_position' = get_agent_initial_position(board)
    /\ _frontier' = _build_frontier(board, get_agent_initial_position(board))
    /\ started' = TRUE
    /\ op' = "game_start"
    /\ UNCHANGED <<board, role, state, query, weights, action, features, result>>

AttackerComputeFeatures ==
    /\ started
    /\ role = "attacker"
    /\ \E a \in Actions :
        /\ action' = a
        /\ features' = AttackerFeatures(_distances, state, a)
    /\ op' = "compute_features"
    /\ UNCHANGED <<board, role, state, query, agent, result>>

\* Variant: the call re-centres the cached frontier on the agent.
GuardComputeFeaturesRebuilds ==
    /\ started
    /\ role = "guard"
    /\ \E a \in Actions :
        /\ action' = a
        /\ features' = GuardFeatures(_distances, _frontier, state, a)
    /\ op' = "compute_features"
    /\ _frontier' = (IF state.position = None THEN _frontier ELSE <<state.position>>)
    /\ UNCHANGED <<board, role, state, query, started, _distances,
                   _initial_position, weights, result>>

GuardComputeFeatures ==
    /\ started
    /\ role = "guard"
    /\ \E a \in Actions :
        /\ action' = a
        /\ features' = GuardFeatures(_distances, _frontier, state, a)
    /\ op' = "compute_features"
    /\ UNCHANGED <<board, role, state, query, agent, result>>

\* The simulator's next snapshot after the agent has been eaten: its
\* position is no longer defined.
AgentEaten ==
    /\ started
    /\ state.position # None
    /\ state' = [state EXCEPT !.position = None]
    /\ op' = "turn"
    /\ action' = NoAction
    /\ features' = NoFeatures
    /\ UNCHANGED <<board, role, query, agent, result>>

Distance ==
    /\ started
    /\ result' = _distance(_distances, query.start, query.end, query.default)
    /\ op' = "distance"
    /\ UNCHANGED <<board, role, state, query, agent, action, features>>

ClosestDistance ==
    /\ started
    /\ result' = _closest_distance(_distances, query.start, query.targets,
                                   query.default)
    /\ op' = "closest_distance"
    /\ UNCHANGED <<board, role, state, query, agent, action, features>>

DistanceToFrontier ==
    /\ started
    /\ result' = _distance_to_frontier(_distances, _frontier, query.start)
    /\ op' = "distance_to_frontier"
    /\ UNCHANGED <<board, role, state, query, agent, action, features>>

----------------------------------------------------------------------------
(* Inputs of the feature extractors and of the adapter *)

FeatureBoards ==
    LET w == MaxWidth
        h == MaxHeight
        proto == [width |-> w, height |-> h, walls |-> {}, initial |-> None]
    IN  {b \in {[proto EXCEPT !.walls = ws, !.initial = i] :
                    ws \in {{}, Column(proto, (w \div 2) - 1), Column(proto, w \div 2)},
                    i \in {None, Position(0, 0), Position(h - 1, w - 1)}} :
            b.initial \notin b.walls}

\* Cells where food and opponents are placed: the open cells of row 0.
Spots(b) == {p \in OpenCells(b) : p[1] = 0}

PosOrNone(b) == {None} \cup OpenCells(b)

Histories == UNION {[1..n -> Actions] : n \in 0..MaxHist}

FoodSets(b) == {S \in SUBSET Spots(b) : Cardinality(S) <= MaxFood}

Mappings(b) == UNION {[D -> Spots(b)] : D \in SUBSET Opponents}

Scores == {-100, 50}

GameStates(b) ==
    {[BaseState EXCEPT !.actions = hist, !.position = p] :
        hist \in Histories, p \in {b.initial}}
    \cup {[BaseState EXCEPT !.score = s, !.is_ghost = g, !.position = p] :
        s \in Scores, g \in BOOLEAN, p \in PosOrNone(b)}
    \cup {[BaseState EXCEPT !.food = f, !.position = p] :
        f \in FoodSets(b), p \in PosOrNone(b)}
    \cup {[BaseState EXCEPT !.ghosts = m, !.position = p] :
        m \in Mappings(b), p \in PosOrNone(b)}
    \cup {[BaseState EXCEPT !.invaders = m, !.position = p] :
        m \in Mappings(b), p \in PosOrNone(b)}

Queries(b) ==
    {[start |-> s, end |-> e, targets |-> <<>>, default |-> d] :
        s \in PosOrNone(b), e \in {None} \cup Spots(b), d \in Defaults}
    \cup {[start |-> s, end |-> None, targets |-> SetToSeq(f), default |-> d] :
        s \in PosOrNone(b), f \in FoodSets(b), d \in Defaults}

----------------------------------------------------------------------------
(* Frontier calculator on every board of the bounds *)

InitFrontier ==
    /\ IsBoard(board)
    /\ role \in Roles
    /\ state = BaseState
    /\ query = NoQuery
    /\ Constructed

NextFrontier == game_start

SpecFrontier == InitFrontier /\ [][NextFrontier]_vars

----------------------------------------------------------------------------
(* Feature extraction over the turns of a game *)

InitFeatures ==
    /\ board \in FeatureBoards
    /\ role \in Roles
    /\ state \in GameStates(board)
    /\ query = NoQuery
    /\ Constructed

NextFeatures ==
    \/ game_start
    \/ AttackerComputeFeatures
    \/ GuardComputeFeatures
    \/ AgentEaten

SpecFeatures == InitFeatures /\ [][NextFeatures]_vars

----------------------------------------------------------------------------
(* Adapter queries *)

InitDistance ==
    /\ board \in FeatureBoards
    /\ role \in Roles
    /\ state = BaseState
    /\ query \in Queries(board)
    /\ Constructed

NextDistance ==
    \/ game_start
    \/ Distance
    \/ ClosestDistance
    \/ DistanceToFrontier

SpecDistance == InitDistance /\ [][NextDistance]_vars

----------------------------------------------------------------------------
(* Vocabulary of the properties *)

SetMin(S) == CHOOSE x \in S : \A y \in S : x <= y

\* The column the frontier lies in, by the board and the initial position.
HomeColumn ==
    IF board.initial # None /\ 2 * board.initial[2] >= board.width
    THEN board.width \div 2
    ELSE (board.width \div 2) - 1

HomeColumnWalled == Column(board, HomeColumn) \subseteq board.walls

\* What the distance table answers from the agent's position, MAX_DIST
\* standing for no known path.
TableDistance(p) == get_distance_default(_distances, state.position, p, MAX_DIST)

GhostDistances == {TableDistance(state.ghosts[o]) : o \in DOMAIN state.ghosts}

InvaderDistances == {TableDistance(state.invaders[o]) : o \in DOMAIN state.invaders}

FoodDistances == {TableDistance(f) : f \in state.food}

FrontierDistances == {TableDistance(_frontier[i]) : i \in 1..Len(_frontier)}

Extracted(r) == op = "compute_features" /\ role = r

----------------------------------------------------------------------------
(* Properties *)

C2_FrontierIsOpenColumn ==
    (started /\ ~HomeColumnWalled) =>
        /\ \A i \in 1..Len(_frontier) :
            /\ _frontier[i][2] = HomeColumn
            /\ _frontier[i][1] \in 0..(board.height - 1)
            /\ _frontier[i] \notin board.walls
        /\ \A i, j \in 1..Len(_frontier) : i < j => _frontier[i][1] < _frontier[j][1]
        /\ \A r \in 0..(board.height - 1) :
            Position(r, HomeColumn) \notin board.walls
                => \E i \in 1..Len(_frontier) : _frontier[i] = Position(r, HomeColumn)

C2_Witness ==
    /\ started
    /\ board.width = 3
    /\ board.initial # None
    /\ board.initial[2] = 1
    /\ Len(_frontier) = 2
    /\ _frontier[1] = Position(0, 0)

\* C3: in a guard feature vector that holds num_invaders, with invaders
\* frontier_distance is 0.0 and distance_to_invader the uncapped closest
\* distance to an invader; without invaders distance_to_invader is 0.0 and
\* frontier_distance the distance to the nearest frontier cell (0.0 when the
\* frontier is empty); the two are never both non-zero.
C3_GuardChaseOrPatrol ==
    (Extracted("guard") /\ "num_invaders" \in DOMAIN features) =>
        LET n == Cardinality(DOMAIN state.invaders)
        IN  /\ features["num_invaders"] = 100 * n
            /\ n > 0 =>
                /\ features["frontier_distance"] = 0
                /\ features["distance_to_invader"] = SetMin(InvaderDistances)
            /\ n = 0 =>
                /\ features["distance_to_invader"] = 0
                /\ features["frontier_distance"] =
                    (IF Len(_frontier) = 0 THEN 0 ELSE SetMin(FrontierDistances))
            /\ features["distance_to_invader"] = 0 \/ features["frontier_distance"] = 0

C3_Witness ==
    /\ Extracted("guard")
    /\ state.position # None
    /\ features["num_invaders"] = 100
    /\ features["distance_to_invader"] = 300
    /\ features["frontier_distance"] = 0
    /\ Len(_frontier) > 0
    /\ SetMin(FrontierDistances) > 0

\* C4: for the attacker with a defined position, ghost_near is 1.0 exactly
\* when the uncapped closest distance to a visible non-scared opponent is
\* <= 3.0 (0.0 with no visible opponent), and distance_to_ghost is that
\* distance capped at 12.0.
C4_GhostNearUncapped ==
    (Extracted("attacker") /\ state.position # None) =>
        LET closest == SetMin(GhostDistances \cup {MAX_DIST})
        IN  /\ features["ghost_near"] \in {0, 100}
            /\ features["ghost_near"] = 100 <=> closest <= 300
            /\ DOMAIN state.ghosts = {} => features["ghost_near"] = 0
            /\ features["distance_to_ghost"] = Min2(closest, 1200)

C4_Witness ==
    /\ Extracted("attacker")
    /\ state.position # None
    /\ DOMAIN state.ghosts # {}
    /\ SetMin(GhostDistances) = 300
    /\ features["ghost_near"] = 100

\* C5: for the attacker, distance_to_food is min(closest distance to visible
\* food, 20.0), so within [0.0, 20.0], an unreachable food giving 20.0; with
\* no food visible it is 0.0.
C5_FoodDistanceCapped ==
    (Extracted("attacker") /\ state.position # None) =>
        IF state.food = {}
        THEN features["distance_to_food"] = 0
        ELSE /\ features["distance_to_food"] = Min2(SetMin(FoodDistances), 2000)
             /\ features["distance_to_food"] >= 0
             /\ features["distance_to_food"] <= 2000

C5_Witness ==
    /\ Extracted("attacker")
    /\ state.position # None
    /\ state.food # {}
    /\ SetMin(FoodDistances) = 2500
    /\ features["distance_to_food"] = 2000

\* C6: with the agent's own position undefined, compute_features returns
\* exactly the position-independent keys: bias, score, stopped, on_home_side,
\* reverse for the attacker, and bias, stopped, on_home_side, reverse for the
\* guard.
C6_UndefinedPositionKeys ==
    (op = "compute_features" /\ state.position = None) =>
        DOMAIN features =
            (IF role = "attacker"
             THEN {"bias", "score", "stopped", "on_home_side", "reverse"}
             ELSE {"bias", "stopped", "on_home_side", "reverse"})

C6_Witness ==
    /\ Extracted("guard")
    /\ state.position = None
    /\ DOMAIN state.invaders # {}
    /\ DOMAIN features = {"bias", "stopped", "on_home_side", "reverse"}

\* C7: for both roles, reverse is 1.0 exactly when the history holds at least
\* two actions and the candidate action is get_reverse_action of the
\* second-most-recent one; otherwise it is 0.0.
C7_ReverseSecondMostRecent ==
    op = "compute_features" =>
        LET hist == state.actions
        IN  /\ features["reverse"] \in {0, 100}
            /\ features["reverse"] = 100 <=>
                (Len(hist) >= 2 /\ action = get_reverse_action(hist[Len(hist) - 1]))

C7_Witness ==
    /\ op = "compute_features"
    /\ state.actions = <<"NORTH", "SOUTH">>
    /\ action = "SOUTH"
    /\ features["reverse"] = 100

\* C8: distance with an undefined endpoint, and closest_distance with an
\* undefined start or no targets, return exactly the supplied default without
\* a lookup in the distance table; with targets, closest_distance returns the
\* minimum of the default and the distances to the targets.
C8_DefaultWhenNothingToMeasure ==
    /\ (op = "distance" /\ (query.start = None \/ query.end = None))
        => result = [v |-> query.default, n |-> 0]
    /\ (op = "closest_distance" /\ (query.start = None \/ query.targets = <<>>))
        => result = [v |-> query.default, n |-> 0]
    /\ (op = "closest_distance" /\ query.start # None /\ query.targets # <<>>)
        => /\ result.v =
                SetMin({query.default} \cup
                       {get_distance_default(_distances, query.start,
                                             query.targets[i], query.default) :
                            i \in 1..Len(query.targets)})
           /\ result.v <= query.default

C8_Witness ==
    /\ op = "closest_distance"
    /\ query.start # None
    /\ query.targets = <<>>
    /\ query.default = 700
    /\ result = [v |-> 700, n |-> 0]

C10_CacheImmutable ==
    [][/\ started =>
            /\ _frontier' = _frontier
            /\ _initial_position' = _initial_position
            /\ _distances' = _distances
            /\ weights' = weights
       /\ (op = "compute_features" /\ op' = "compute_features"
            /\ state' = state /\ action' = action)
            => features' = features]_vars

C10_Witness ==
    /\ Extracted("guard")
    /\ state.position # None
    /\ Len(_frontier) = MaxHeight
    /\ features["frontier_distance"] > 0

====
